---------------------------- MODULE Spec2Model ----------------------------
(***************************************************************************)
(* The quote-verification component QuoteChecker: extractQuotesFromDraft,  *)
(* findQuoteInTranscript and the asynchronous pass verifyQuotes.           *)
(*                                                                         *)
(* JavaScript strings are TLA+ strings; Len, SubSeq and \o act on them     *)
(* character by character.  Offsets are JavaScript's, counted from 0.      *)
(***************************************************************************)
EXTENDS Integers, Sequences, FiniteSets, TLC

VARIABLES
    draft,             \* prop draft, when it is given
    transcript,        \* prop transcript, when it is given
    missing,           \* the props passed as undefined
    captured,          \* the props the running verifyQuotes closed over
    isChecking,        \* useState(false)
    verifications,     \* useState([])
    progress,          \* useState(0), as <<numerator, denominator>> of a percentage
    pc,                \* where the asynchronous verifyQuotes stands
    i,                 \* its loop index
    extractedQuotes,   \* its local extractedQuotes
    newVerifications,  \* its local newVerifications
    delivered,         \* the lists handed to onVerificationComplete, in order
    toasts,            \* the titles handed to toast, in order
    passes,            \* the number of passes started
    quote,             \* the quote of the last findQuoteInTranscript call
    found              \* the result of the last findQuoteInTranscript call

vars == << draft, transcript, missing, captured, isChecking, verifications, progress, pc, i,
           extractedQuotes, newVerifications, delivered, toasts, passes,
           quote, found >>

---------------------------------------------------------------------------
(* JavaScript string primitives *)

Min(a, b) == IF a < b THEN a ELSE b

Max(a, b) == IF a > b THEN a ELSE b

\* the characters of s at the offsets a .. b - 1, for 0 <= a and b <= Len(s)
StrSlice(s, a, b) == IF a >= b THEN "" ELSE SubSeq(s, a + 1, b)

\* s.charAt(k), k counted from 0
CharAt(s, k) == IF k < 0 \/ k >= Len(s) THEN "" ELSE SubSeq(s, k + 1, k + 1)

\* s.substring(a, b): both ends clamped to 0..s.length, swapped when a > b
Substring(s, a, b) ==
    LET ca == Max(0, Min(a, Len(s)))
        cb == Max(0, Min(b, Len(s)))
    IN  StrSlice(s, Min(ca, cb), Max(ca, cb))

\* s without its first character
Rest(s) == StrSlice(s, 1, Len(s))

\* s.indexOf(t, from): the first offset >= from at which t occurs, else -1
IndexOfFrom(s, t, from) ==
    LET hits == { k \in from .. (Len(s) - Len(t)) : StrSlice(s, k, k + Len(t)) = t }
    IN  IF hits = {} THEN -1 ELSE CHOOSE k \in hits : \A m \in hits : k <= m

IndexOf(s, t) == IndexOfFrom(s, t, 0)

Includes(s, t) == IndexOf(s, t) # -1

UpperLetters == "ABCDEFGHIJKLMNOPQRSTUVWXYZ"

LowerLetters == "abcdefghijklmnopqrstuvwxyz"

Digits == "0123456789"

CharsOf(s) == { CharAt(s, k) : k \in 0 .. (Len(s) - 1) }

\* the class \w
WordChars == CharsOf(UpperLetters) \cup CharsOf(LowerLetters) \cup CharsOf(Digits) \cup {"_"}

\* the class \s
SpaceChars == {" ", "\t", "\n", "\r", "\f"}

UpperChars == CharsOf(UpperLetters)

\* U+0130, the capital I with a dot above, is written "@" in the texts here
\* and U+0307, the combining dot above, "~"
DottedCapitalI == "@"

CombiningDot == "~"

\* what toLowerCase makes of one character: U+0130 becomes the two code
\* units i U+0307
LowerChar(c) ==
    IF c \in UpperChars
    THEN CharAt(LowerLetters, IndexOf(UpperLetters, c))
    ELSE IF c = DottedCapitalI
    THEN "i" \o CombiningDot
    ELSE c

\* the pieces a + 1 .. b put together, by halves
RECURSIVE Concat(_, _, _)
Concat(pieces, a, b) ==
    IF a >= b THEN ""
    ELSE IF b - a = 1 THEN pieces[b]
    ELSE LET m == (a + b) \div 2
         IN  Concat(pieces, a, m) \o Concat(pieces, m, b)

ToLowerCase(s) ==
    Concat([k \in 1 .. Len(s) |-> LowerChar(CharAt(s, k - 1))], 0, Len(s))

\* s.trim()
RECURSIVE TrimStart(_)
TrimStart(s) ==
    IF s # "" /\ CharAt(s, 0) \in SpaceChars THEN TrimStart(Rest(s)) ELSE s

RECURSIVE TrimEnd(_)
TrimEnd(s) ==
    IF s # "" /\ CharAt(s, Len(s) - 1) \in SpaceChars
    THEN TrimEnd(StrSlice(s, 0, Len(s) - 1)) ELSE s

Trim(s) == TrimEnd(TrimStart(s))

\* s.split(' '): the pieces between single spaces; "" gives one empty piece
Split(s) ==
    LET spaces == { k \in 0 .. (Len(s) - 1) : CharAt(s, k) = " " }
        starts == {0} \cup { k + 1 : k \in spaces }
        Start(j) == CHOOSE p \in starts : Cardinality({ q \in starts : q < p }) = j - 1
        End(p) == LET later == { k \in spaces : k >= p }
                  IN  IF later = {} THEN Len(s)
                      ELSE CHOOSE k \in later : \A m \in later : k <= m
    IN  SubSeq([j \in 1 .. Cardinality(starts) |-> StrSlice(s, Start(j), End(Start(j)))],
               1, Cardinality(starts))

\* words.join(' ')
Join(words, sep) ==
    Concat([k \in 1 .. Len(words) |-> IF k = 1 THEN words[1] ELSE sep \o words[k]],
           0, Len(words))

\* words.slice(a, b)
Slice(words, a, b) == SubSeq(words, a + 1, b)

---------------------------------------------------------------------------
(* normalizeText *)

\* .replace(/[^\w\s]/g, ' ')
ReplaceNonWord(s) ==
    Concat([k \in 1 .. Len(s) |->
               LET c == CharAt(s, k - 1)
               IN  IF c \in WordChars \/ c \in SpaceChars THEN c ELSE " "],
           0, Len(s))

\* .replace(/\s+/g, ' ')
\* each run of whitespace becomes one space, put where the run begins
CollapseSpaces(s) ==
    Concat([k \in 1 .. Len(s) |->
               LET c == CharAt(s, k - 1)
               IN  IF c \notin SpaceChars THEN c
                   ELSE IF k > 1 /\ CharAt(s, k - 2) \in SpaceChars THEN ""
                   ELSE " "],
           0, Len(s))

normalizeText(text) == Trim(CollapseSpaces(ReplaceNonWord(ToLowerCase(text))))

---------------------------------------------------------------------------
(* findQuoteInTranscript *)

\* an absent (null or undefined) value, and a present one
None == << >>

Some(v) == << v >>

\* A confidence is a percentage kept as the fraction num / den: the window
\* tier computes (windowSize / n) * 100 and the scattered tier
\* (totalWordsFound / n) * 80.
Conf(num, den) == [num |-> num, den |-> den]

\* c >= t, c < t for the whole-number thresholds 30, 50, 70 (the doubles the
\* code computes fall on the same side of these as the exact fractions)
AtLeast(c, t) == c.num >= t * c.den

Below(c, t) == ~AtLeast(c, t)

\* a > b on the doubles, for two confidences of the same tier
Greater(a, b) == a.num * b.den > b.num * a.den

\* Quote lengths n (up to 40) at which the double (5 / n) * 80 is greater than
\* the double (4 / n) * 100, or (10 / n) * 80 than (8 / n) * 100, although the
\* fractions are equal.
TieRoundsUp == {12, 14, 17, 24, 28, 29, 34}

\* scattered > window on the doubles, both over the same quote length
ScatterExceeds(scattered, window) ==
    \/ Greater(scattered, window)
    \/ /\ window.num > 0
       /\ scattered.num * window.den = window.num * scattered.den
       /\ scattered.den \in TieRoundsUp

Segment(start, end, text) == [start |-> start, end |-> end, text |-> text]

NoMatch == [words |-> << >>, confidence |-> Conf(0, 1), segments |-> << >>]

\* StartLoop replacing bestMatch by every window found, whatever its confidence
RECURSIVE StartLoopKeepingLast(_, _, _, _, _, _)
StartLoopKeepingLast(quoteWords, normalizedTranscript, transcriptText, windowSize, k, bestMatch) ==
    IF k > Len(quoteWords) - windowSize THEN bestMatch
    ELSE LET window == Join(Slice(quoteWords, k, k + windowSize), " ")
             matchIndex == IndexOf(normalizedTranscript, window)
             confidence == Conf(windowSize * 100, Len(quoteWords))
         IN  IF matchIndex # -1
             THEN StartLoopKeepingLast(quoteWords, normalizedTranscript, transcriptText,
                      windowSize, k + 1,
                      [words |-> Slice(quoteWords, k, k + windowSize),
                       confidence |-> confidence,
                       segments |-> << Segment(matchIndex, matchIndex + Len(window),
                                       Substring(transcriptText, matchIndex,
                                                 matchIndex + Len(window))) >>])
             ELSE StartLoopKeepingLast(quoteWords, normalizedTranscript, transcriptText,
                      windowSize, k + 1, bestMatch)

\* the inner loop, over the start i of the window, from k on
RECURSIVE StartLoop(_, _, _, _, _, _)
StartLoop(quoteWords, normalizedTranscript, transcriptText, windowSize, k, bestMatch) ==
    IF k > Len(quoteWords) - windowSize THEN bestMatch
    ELSE LET window == Join(Slice(quoteWords, k, k + windowSize), " ")
             matchIndex == IndexOf(normalizedTranscript, window)
             confidence == Conf(windowSize * 100, Len(quoteWords))
         IN  IF matchIndex # -1 /\ Greater(confidence, bestMatch.confidence)
             THEN StartLoop(quoteWords, normalizedTranscript, transcriptText,
                            windowSize, k + 1,
                            [words |-> Slice(quoteWords, k, k + windowSize),
                             confidence |-> confidence,
                             segments |-> << Segment(matchIndex, matchIndex + Len(window),
                                             Substring(transcriptText, matchIndex,
                                                       matchIndex + Len(window))) >>])
             ELSE StartLoop(quoteWords, normalizedTranscript, transcriptText,
                            windowSize, k + 1, bestMatch)

\* the outer loop, over windowSize, from windowSize down to 3
RECURSIVE WindowLoop(_, _, _, _, _)
WindowLoop(quoteWords, normalizedTranscript, transcriptText, windowSize, bestMatch) ==
    IF windowSize < 3 THEN bestMatch
    ELSE WindowLoop(quoteWords, normalizedTranscript, transcriptText, windowSize - 1,
                    StartLoop(quoteWords, normalizedTranscript, transcriptText,
                              windowSize, 0, bestMatch))

WindowTier(quoteWords, normalizedTranscript, transcriptText) ==
    WindowLoop(quoteWords, normalizedTranscript, transcriptText,
               Min(Len(quoteWords), 8), NoMatch)

\* the loop over quoteWords of the scattered tier: the segments of the words
\* longer than 3 characters that occur in the normalized transcript
RECURSIVE ScatterLoop(_, _, _)
ScatterLoop(words, normalizedTranscript, transcriptText) ==
    IF words = << >> THEN << >>
    ELSE LET word == Head(words)
             wordIndex == IndexOf(normalizedTranscript, word)
             rest == ScatterLoop(Tail(words), normalizedTranscript, transcriptText)
         IN  IF Len(word) > 3 /\ wordIndex # -1
             THEN << Segment(wordIndex, wordIndex + Len(word),
                             Substring(transcriptText, wordIndex, wordIndex + Len(word))) >>
                      \o rest
             ELSE rest

\* ScatterTier without its cap: the factor 100 in place of 80
ScatterTierUncapped(quoteWords, normalizedTranscript, transcriptText, bestMatch) ==
    IF Below(bestMatch.confidence, 50)
    THEN LET segments == ScatterLoop(quoteWords, normalizedTranscript, transcriptText)
             totalWordsFound == Len(segments)
             confidence == Conf(totalWordsFound * 100, Len(quoteWords))
         IN  IF Len(segments) > 0 /\ Greater(confidence, bestMatch.confidence)
             THEN [words |-> << >>, confidence |-> confidence, segments |-> segments]
             ELSE bestMatch
    ELSE bestMatch

\* ScatterTier with the factor 50 in place of 80
ScatterTierAt50(quoteWords, normalizedTranscript, transcriptText, bestMatch) ==
    IF Below(bestMatch.confidence, 50)
    THEN LET segments == ScatterLoop(quoteWords, normalizedTranscript, transcriptText)
             totalWordsFound == Len(segments)
             confidence == Conf(totalWordsFound * 50, Len(quoteWords))
         IN  IF Len(segments) > 0 /\ Greater(confidence, bestMatch.confidence)
             THEN [words |-> << >>, confidence |-> confidence, segments |-> segments]
             ELSE bestMatch
    ELSE bestMatch

\* ScatterTier run whatever the window tier's confidence
ScatterTierAlways(quoteWords, normalizedTranscript, transcriptText, bestMatch) ==
    LET segments == ScatterLoop(quoteWords, normalizedTranscript, transcriptText)
        totalWordsFound == Len(segments)
        confidence == Conf(totalWordsFound * 80, Len(quoteWords))
    IN  IF Len(segments) > 0 /\ ScatterExceeds(confidence, bestMatch.confidence)
        THEN [words |-> << >>, confidence |-> confidence, segments |-> segments]
        ELSE bestMatch

ScatterTier(quoteWords, normalizedTranscript, transcriptText, bestMatch) ==
    IF Below(bestMatch.confidence, 50)
    THEN LET segments == ScatterLoop(quoteWords, normalizedTranscript, transcriptText)
             totalWordsFound == Len(segments)
             confidence == Conf(totalWordsFound * 80, Len(quoteWords))
         IN  IF Len(segments) > 0 /\ ScatterExceeds(confidence, bestMatch.confidence)
             THEN [words |-> << >>, confidence |-> confidence, segments |-> segments]
             ELSE bestMatch
    ELSE bestMatch

\* segments.sort((a, b) => a.start - b.start): stable
RECURSIVE InsertByStart(_, _)
InsertByStart(sorted, seg) ==
    IF sorted = << >> THEN << seg >>
    ELSE IF Head(sorted).start <= seg.start
    THEN << Head(sorted) >> \o InsertByStart(Tail(sorted), seg)
    ELSE << seg >> \o sorted

RECURSIVE SortByStart(_)
SortByStart(segments) ==
    IF segments = << >> THEN << >>
    ELSE InsertByStart(SortByStart(SubSeq(segments, 1, Len(segments) - 1)),
                       segments[Len(segments)])

SegmentTexts(segments) == [k \in 1 .. Len(segments) |-> segments[k].text]

NotFound ==
    [match |-> None, matchType |-> "not_found", confidence |-> Conf(0, 1),
     snippet |-> None, startIndex |-> None, endIndex |-> None]

\* MatchKind with the partial threshold misplaced at 80
MatchKindAt80(confidence) == IF AtLeast(confidence, 80) THEN "partial" ELSE "paraphrased"

\* MatchKind with the threshold 30 in place of 70
MatchKindFrom30(confidence) == IF AtLeast(confidence, 30) THEN "partial" ELSE "paraphrased"

MatchKind(confidence) == IF AtLeast(confidence, 70) THEN "partial" ELSE "paraphrased"

\* BuildResult without the threshold of 30: any match found is reported
BuildResultOfAnyMatch(bestMatch) ==
    IF Len(bestMatch.segments) > 1
    THEN LET sortedSegments == SortByStart(bestMatch.segments)
             snippet == Join(SegmentTexts(sortedSegments), "...")
         IN  [match |-> Some(snippet),
              matchType |-> MatchKind(bestMatch.confidence),
              confidence |-> bestMatch.confidence,
              snippet |-> Some(snippet),
              startIndex |-> Some(sortedSegments[1].start),
              endIndex |-> Some(sortedSegments[Len(sortedSegments)].end)]
    ELSE IF Len(bestMatch.segments) = 1
    THEN LET segment == bestMatch.segments[1]
         IN  [match |-> Some(segment.text),
              matchType |-> MatchKind(bestMatch.confidence),
              confidence |-> bestMatch.confidence,
              snippet |-> Some(segment.text),
              startIndex |-> Some(segment.start),
              endIndex |-> Some(segment.end)]
    ELSE NotFound

\* the tail of findQuoteInTranscript: the result built from bestMatch
BuildResult(bestMatch) ==
    IF AtLeast(bestMatch.confidence, 30) /\ Len(bestMatch.segments) > 1
    THEN LET sortedSegments == SortByStart(bestMatch.segments)
             snippet == Join(SegmentTexts(sortedSegments), "...")
         IN  [match |-> Some(snippet),
              matchType |-> MatchKind(bestMatch.confidence),
              confidence |-> bestMatch.confidence,
              snippet |-> Some(snippet),
              startIndex |-> Some(sortedSegments[1].start),
              endIndex |-> Some(sortedSegments[Len(sortedSegments)].end)]
    ELSE IF AtLeast(bestMatch.confidence, 30) /\ Len(bestMatch.segments) = 1
    THEN LET segment == bestMatch.segments[1]
         IN  [match |-> Some(segment.text),
              matchType |-> MatchKind(bestMatch.confidence),
              confidence |-> bestMatch.confidence,
              snippet |-> Some(segment.text),
              startIndex |-> Some(segment.start),
              endIndex |-> Some(segment.end)]
    ELSE NotFound

\* the exact tier's result
ExactResult(normalizedQuote, normalizedTranscript, transcriptText) ==
    LET startIndex == IndexOf(normalizedTranscript, normalizedQuote)
        endIndex == startIndex + Len(normalizedQuote)
        snippet == Substring(transcriptText, startIndex, endIndex)
    IN  [match |-> Some(snippet), matchType |-> "exact", confidence |-> Conf(100, 1),
         snippet |-> Some(snippet), startIndex |-> Some(startIndex),
         endIndex |-> Some(endIndex)]

\* findQuoteInTranscript searching the transcript as given, not normalized
findQuoteInRawTranscript(quoteText, transcriptText) ==
    LET normalizedQuote == normalizeText(quoteText)
        quoteWords == Split(normalizedQuote)
    IN  IF Includes(transcriptText, normalizedQuote)
        THEN ExactResult(normalizedQuote, transcriptText, transcriptText)
        ELSE BuildResult(ScatterTier(quoteWords, transcriptText, transcriptText,
                 WindowTier(quoteWords, transcriptText, transcriptText)))

findQuoteInTranscript(quoteText, transcriptText) ==
    LET normalizedQuote == normalizeText(quoteText)
        normalizedTranscript == normalizeText(transcriptText)
        quoteWords == Split(normalizedQuote)
    IN  IF Includes(normalizedTranscript, normalizedQuote)
        THEN ExactResult(normalizedQuote, normalizedTranscript, transcriptText)
        ELSE BuildResult(ScatterTier(quoteWords, normalizedTranscript, transcriptText,
                 WindowTier(quoteWords, normalizedTranscript, transcriptText)))

---------------------------------------------------------------------------
(* Regular expressions: a pattern is a sequence of atoms, matched by        *)
(* backtracking in the order JavaScript tries the alternatives.  The       *)
(* matcher reads the subject as the tuple of its characters.               *)

Chars(s) == [k \in 1 .. Len(s) |-> SubSeq(s, k, k)]

\* the alternatives of alts that begin with the character c, in their order
RECURSIVE BeginningWith(_, _)
BeginningWith(alts, c) ==
    IF alts = << >> THEN << >>
    ELSE (IF CharAt(Head(alts), 0) = c THEN << Chars(Head(alts)) >> ELSE << >>)
             \o BeginningWith(Tail(alts), c)

\* one of the literals alts, tried in order; by: the same alternatives, in
\* the same order, filed under the character each begins with
Lit(alts) ==
    [k |-> "lit", alts |-> alts,
     by |-> [c \in { CharAt(alts[a], 0) : a \in 1 .. Len(alts) } |->
                BeginningWith(alts, c)],
     set |-> {}, neg |-> FALSE, min |-> 0, max |-> 0, lazy |-> FALSE, g |-> 0]

\* min to max characters (max = -1: unbounded) of the class set, or of its
\* complement when neg; greedy unless lazy
Cls(set, neg, min, max, lazy) ==
    [k |-> "cls", alts |-> << >>, by |-> << >>, set |-> set, neg |-> neg,
     min |-> min, max |-> max, lazy |-> lazy, g |-> 0]

\* the opening and the closing parenthesis of capture group g
Open(g) == [k |-> "open", alts |-> << >>, by |-> << >>, set |-> {}, neg |-> FALSE,
            min |-> 0, max |-> 0, lazy |-> FALSE, g |-> g]

Close(g) == [k |-> "close", alts |-> << >>, by |-> << >>, set |-> {}, neg |-> FALSE,
             min |-> 0, max |-> 0, lazy |-> FALSE, g |-> g]

\* the verbs of patterns 1 and 2
Verbs == << "said", "explained", "noted", "shared", "mentioned", "stated", "told",
            "expressed", "revealed", "admitted", "emphasized", "clarified", "added",
            "continued", "concluded" >>

\* the dashes of pattern 3; the en dash and the em dash are outside the
\* ASCII characters a string of this module holds, which leaves the hyphen
DashChars == {"-"}

\* the {20,} of the four patterns, and the length test of line 85
MinQuoteLength == 20

QuoteBody == Cls({"\""}, TRUE, MinQuoteLength, -1, TRUE)

\* /"([^"]{20,}?),"?\s+([^\.]+(?:said|...)[^\.]*\.)/gi
Pattern1 ==
    << Lit(<< "\"" >>), Open(1), QuoteBody, Close(1), Lit(<< "," >>),
       Cls({"\""}, FALSE, 0, 1, FALSE), Cls(SpaceChars, FALSE, 1, -1, FALSE),
       Open(2), Cls({"."}, TRUE, 1, -1, FALSE), Lit(Verbs),
       Cls({"."}, TRUE, 0, -1, FALSE), Lit(<< "." >>), Close(2) >>

\* /([^\.]+(?:said|...)[^:]*?):\s*"([^"]{20,}?)"/gi
Pattern2 ==
    << Open(1), Cls({"."}, TRUE, 1, -1, FALSE), Lit(Verbs),
       Cls({":"}, TRUE, 0, -1, TRUE), Close(1), Lit(<< ":" >>),
       Cls(SpaceChars, FALSE, 0, -1, FALSE), Lit(<< "\"" >>),
       Open(2), QuoteBody, Close(2), Lit(<< "\"" >>) >>

\* /"([^"]{20,}?)"\s*[-en em]\s*([^\.]+)/gi
Pattern3 ==
    << Lit(<< "\"" >>), Open(1), QuoteBody, Close(1), Lit(<< "\"" >>),
       Cls(SpaceChars, FALSE, 0, -1, FALSE), Cls(DashChars, FALSE, 1, 1, FALSE),
       Cls(SpaceChars, FALSE, 0, -1, FALSE),
       Open(2), Cls({"."}, TRUE, 1, -1, FALSE), Close(2) >>

\* /(?:according to|as)\s+([^,]+),?\s*"([^"]{20,}?)"/gi
Pattern4 ==
    << Lit(<< "according to", "as" >>), Cls(SpaceChars, FALSE, 1, -1, FALSE),
       Open(1), Cls({","}, TRUE, 1, -1, FALSE), Close(1),
       Cls({","}, FALSE, 0, 1, FALSE), Cls(SpaceChars, FALSE, 0, -1, FALSE),
       Lit(<< "\"" >>), Open(2), QuoteBody, Close(2), Lit(<< "\"" >>) >>

quotePatterns == << Pattern1, Pattern2, Pattern3, Pattern4 >>

\* pattern.source.includes('said|explained')
SourceIncludesVerbs(pattern) == \E k \in 1 .. Len(pattern) : pattern[k] = Lit(Verbs)

Failed == [ok |-> FALSE, index |-> -1, end |-> -1, starts |-> << -1, -1 >>,
           ends |-> << -1, -1 >>]

InClass(atom, c) == IF atom.neg THEN c \notin atom.set ELSE c \in atom.set

\* the first offset in a .. b - 1 whose character is outside the class atom,
\* b if there is none; searched by halves
RECURSIVE RunEnd(_, _, _, _)
RunEnd(atom, cs, a, b) ==
    IF a >= b THEN b
    ELSE IF b - a = 1 THEN (IF InClass(atom, cs[a + 1]) THEN b ELSE a)
    ELSE LET m == (a + b) \div 2
             left == RunEnd(atom, cs, a, m)
         IN  IF left < m THEN left ELSE RunEnd(atom, cs, m, b)

\* how many characters from offset pos on the class atom can take at most
RunLength(atom, cs, pos) ==
    LET limit == IF atom.max = -1 THEN Len(cs) ELSE Min(Len(cs), pos + atom.max)
    IN  RunEnd(atom, cs, pos, limit) - pos

\* the literal alt stands at offset pos of low
LitAt(alt, low, pos) ==
    /\ pos + Len(alt) <= Len(low)
    /\ \A k \in 1 .. Len(alt) : low[pos + k] = alt[k]

\* The atoms from idx on matched at offset pos of the characters cs, whose
\* lower-cased copy is low (the flag i: the literals are lower case).  The
\* first success in backtracking order, or Failed.
RECURSIVE MatchFrom(_, _, _, _, _, _)
RECURSIVE TryAlts(_, _, _, _, _, _, _)
RECURSIVE TryCounts(_, _, _, _, _, _, _, _)
MatchFrom(atoms, idx, cs, low, pos, caps) ==
    IF idx > Len(atoms) THEN [caps EXCEPT !.ok = TRUE, !.end = pos]
    ELSE LET atom == atoms[idx]
         IN  CASE atom.k = "open" ->
                    MatchFrom(atoms, idx + 1, cs, low, pos,
                              [caps EXCEPT !.starts[atom.g] = pos])
               [] atom.k = "close" ->
                    MatchFrom(atoms, idx + 1, cs, low, pos,
                              [caps EXCEPT !.ends[atom.g] = pos])
               [] atom.k = "lit" ->
                    IF pos < Len(low) /\ low[pos + 1] \in DOMAIN atom.by
                    THEN TryAlts(atoms, idx, cs, low, pos, caps, atom.by[low[pos + 1]])
                    ELSE Failed
               [] atom.k = "cls" ->
                    LET run == RunLength(atom, cs, pos)
                    IN  IF run < atom.min THEN Failed
                        ELSE TryCounts(atoms, idx, cs, low, pos, caps, atom.min, run)

TryAlts(atoms, idx, cs, low, pos, caps, alts) ==
    IF alts = << >> THEN Failed
    ELSE LET alt == Head(alts)
             here == IF LitAt(alt, low, pos)
                     THEN MatchFrom(atoms, idx + 1, cs, low, pos + Len(alt), caps)
                     ELSE Failed
         IN  IF here.ok THEN here
             ELSE TryAlts(atoms, idx, cs, low, pos, caps, Tail(alts))

\* the class atom idx taking from to upto characters: the fewest first when
\* lazy, the most first when greedy; the first count after which the rest
\* matches, searched by halves
TryCounts(atoms, idx, cs, low, pos, caps, from, upto) ==
    IF from > upto THEN Failed
    ELSE IF from = upto
    THEN MatchFrom(atoms, idx + 1, cs, low, pos + from, caps)
    ELSE LET m == (from + upto) \div 2
             first == IF atoms[idx].lazy
                      THEN TryCounts(atoms, idx, cs, low, pos, caps, from, m)
                      ELSE TryCounts(atoms, idx, cs, low, pos, caps, m + 1, upto)
         IN  IF first.ok THEN first
             ELSE IF atoms[idx].lazy
             THEN TryCounts(atoms, idx, cs, low, pos, caps, m + 1, upto)
             ELSE TryCounts(atoms, idx, cs, low, pos, caps, from, m)

\* the match at the first offset in a .. b where the atoms match, searched
\* by halves
RECURSIVE ExecBetween(_, _, _, _, _)
ExecBetween(atoms, cs, low, a, b) ==
    IF a > b THEN Failed
    ELSE IF a = b
    THEN MatchFrom(atoms, 1, cs, low, a, [Failed EXCEPT !.index = a])
    ELSE LET m == (a + b) \div 2
             left == ExecBetween(atoms, cs, low, a, m)
         IN  IF left.ok THEN left ELSE ExecBetween(atoms, cs, low, m + 1, b)

\* regex.exec with regex.lastIndex = lastIndex: the leftmost match
Exec(atoms, cs, low, lastIndex) == ExecBetween(atoms, cs, low, lastIndex, Len(cs))

\* match[g]
Group(s, m, g) == Substring(s, m.starts[g], m.ends[g])

---------------------------------------------------------------------------
(* extractQuotesFromDraft *)

contextWindow == 150

\* a || b on strings
OrElse(a, b) == IF a # "" THEN a ELSE b

\* lines 69-83: which group is the quote and which the attribution
quotedTextOf(pattern, m1, m2) ==
    IF SourceIncludesVerbs(pattern)
    THEN IF Len(m1) > Len(m2) THEN m1 ELSE m2
    ELSE OrElse(m2, m1)

attributionOf(pattern, m1, m2) ==
    IF SourceIncludesVerbs(pattern)
    THEN IF Len(m1) > Len(m2) THEN m2 ELSE m1
    ELSE OrElse(m1, m2)

\* lines 85-91: the span pushed for a match, if any
SpansOfMatch(pattern, draftText, m) ==
    LET startIndex == m.index
        endIndex == m.end
        contextStart == Max(0, startIndex - contextWindow)
        contextEnd == Min(Len(draftText), endIndex + contextWindow)
        fullContext == Trim(Substring(draftText, contextStart, contextEnd))
        quotedText == quotedTextOf(pattern, Group(draftText, m, 1), Group(draftText, m, 2))
        attribution == attributionOf(pattern, Group(draftText, m, 1), Group(draftText, m, 2))
    IN  IF quotedText # "" /\ Len(quotedText) >= MinQuoteLength /\ attribution # ""
        THEN << [text |-> Trim(quotedText), attribution |-> Trim(attribution),
                 fullContext |-> fullContext] >>
        ELSE << >>

\* the while loop of one pattern, from regex.lastIndex = lastIndex on
RECURSIVE ExecLoop(_, _, _, _, _)
ExecLoop(pattern, draftText, cs, low, lastIndex) ==
    LET m == Exec(pattern, cs, low, lastIndex)
    IN  IF ~m.ok THEN << >>
        ELSE SpansOfMatch(pattern, draftText, m)
                 \o ExecLoop(pattern, draftText, cs, low, m.end)

\* quotePatterns.forEach, from pattern p on
RECURSIVE ForEachPattern(_, _, _, _)
ForEachPattern(p, draftText, cs, low) ==
    IF p > Len(quotePatterns) THEN << >>
    ELSE ExecLoop(quotePatterns[p], draftText, cs, low, 0)
             \o ForEachPattern(p + 1, draftText, cs, low)

extractQuotesFromDraft(draftText) ==
    ForEachPattern(1, draftText, Chars(draftText), Chars(ToLowerCase(draftText)))

---------------------------------------------------------------------------
(* The inputs the specifications draw from *)

\* sentences a draft is put together from
Fragments ==
    << "\"The market grew today,\" Bob said.",
       "Ann noted: \"we scaled our systems\".",
       "The head of the firm added: \"we scaled our systems\".",
       "\"We doubled our revenue\" - Carl Young of Acme Corp.",
       "According to Dana, \"prices fell in the spring\".",
       "He read \"an unattributed remark\" aloud.",
       "\"   we all left early   ,\" Eve said.",
       "Plain prose, no quotation marks.",
       "\"We doubled our revenue\" - Carl.",
       "As Finn put it, \"nothing beats a quiet day\"." >>

\* how many of the Fragments the drafts use
NumFragments == 8

FragmentAt(k) == IF k = 0 THEN "" ELSE Fragments[k]

\* fragment a, then fragment b, a space between them
DraftOf(a, b) ==
    IF a = 0 \/ b = 0 THEN FragmentAt(a) \o FragmentAt(b)
    ELSE FragmentAt(a) \o " " \o FragmentAt(b)

FragmentIndexes == 0 .. Min(NumFragments, Len(Fragments))

\* the drafts of the calls of extractQuotesFromDraft alone: up to two
\* fragments, in either order
Drafts == { DraftOf(a, b) : a \in FragmentIndexes, b \in FragmentIndexes }

\* the drafts of the component's passes: up to two fragments, in the order
\* of Fragments
PassDrafts ==
    { DraftOf(ab[1], ab[2]) :
        ab \in { p \in FragmentIndexes \X FragmentIndexes : p[1] <= p[2] } }

\* the transcripts of the component's passes
PassTranscripts ==
    { "Bob: The market grew today! Ann: We scaled our systems, fast.",
      "  Prices fell in the last spring. Today the market for grain grew - no more." }

\* the most passes of one component (the mount's and the Re-verify clicks')
MaxPasses == 2

\* the transcripts of the calls of findQuoteInTranscript alone
MatchTranscripts ==
    { "  Alpha, beta  gamma: The DELTA!",
      "gamma the alpha beta gamma delta" }

\* the words the quotes of those calls are put together from
Vocabulary == << "Alpha,", "beta", "the", "gamma", "zeta" >>

\* the most words of such a quote
MaxQuoteWords == 4

WordQuotes ==
    UNION { { Join([k \in 1 .. n |-> Vocabulary[f[k]]], " ") :
                f \in [1 .. n -> 1 .. Len(Vocabulary)] } : n \in 1 .. MaxQuoteWords }

\* every contiguous substring of t of at least MinQuoteLength characters
LongSubstrings(t) ==
    { StrSlice(t, ab[1], ab[2]) :
        ab \in { p \in (0 .. Len(t)) \X (0 .. Len(t)) : p[2] - p[1] >= MinQuoteLength } }

QuotesFor(t) == LongSubstrings(t) \cup WordQuotes

\* Quotes put together position by position: at each position either the
\* word of present, which occurs in the transcript, or the word of absent,
\* which does not.  No three consecutive words of ScatteredWords form a run
\* of the transcript; "alpha beta gamma" is a run of the transcript of RunWords.
ScatteredWords ==
    [transcript |-> "Spring: we saw the grain market; prices for oats fell.",
     present |-> << "market", "the", "prices", "fell", "we", "spring", "grain", "for" >>,
     absent |-> << "zebra", "owl", "yak", "lynx", "ox", "otter", "heron", "emu" >>]

RunWords ==
    [transcript |-> "Alpha beta gamma, then delta; first omega, last sigma.",
     present |-> << "alpha", "beta", "gamma", "delta", "omega", "sigma" >>,
     absent |-> << "zebra", "otter", "heron", "lynx", "bison", "stork" >>]

\* the quote of the family with its present words at the positions of S
QuoteOfChoice(family, S) ==
    Join([k \in 1 .. Len(family.present) |->
             IF k \in S THEN family.present[k] ELSE family.absent[k]], " ")

ChoiceQuotes(family) ==
    { QuoteOfChoice(family, S) : S \in SUBSET (1 .. Len(family.present)) }

\* the sentence and the quote of the paraphrase scenario
AnalyticsSentence ==
    "the team scaled infrastructure to support real-time analytics and machine learning workloads across all regions."

AnalyticsQuote == "we scaled infrastructure for real-time analytics"

\* quotes without a word: empty, of whitespace, of punctuation
BlankQuotes == { "", "   ", " \t ", "-- !" }

\* quotes with a run of 4 words of the transcript "gamma the alpha beta gamma
\* delta": of 8 words, with runs of 3 further on; of 9 and of 12 words, with
\* 5 words found
RunQuotes ==
    { "the alpha beta gamma zeta the alpha beta",
      "alpha beta gamma delta zeta gamma zeta zeta zeta",
      "alpha beta gamma delta zeta gamma zeta zeta zeta zeta zeta zeta" }

\* quotes with a word found inside another word found
NestedQuotes ==
    { "infrastructure zebra struct otter",
      "struct zebra infrastructure team" }

\* a transcript that begins with U+0130, and quotes of its last words
DottedTranscript == DottedCapitalI \o "zmir alpha beta gamma"

DottedQuotes == { "alpha beta gamma", "beta gamma", "gamma zeta alpha beta" }

\* the calls of findQuoteInTranscript alone: a transcript and the quotes
\* looked up in it
MatchScenarios ==
    { [transcript |-> t, quotes |-> QuotesFor(t)] : t \in MatchTranscripts }
        \cup { [transcript |-> t, quotes |-> BlankQuotes] : t \in MatchTranscripts \cup {""} }
        \cup { [transcript |-> family.transcript, quotes |-> ChoiceQuotes(family)] :
                 family \in {ScatteredWords, RunWords} }
        \cup { [transcript |-> t, quotes |-> {AnalyticsQuote}] :
                 t \in { AnalyticsSentence,
                         "Dana: So, " \o AnalyticsSentence \o " It took a year." } }
        \cup { [transcript |-> "gamma the alpha beta gamma delta", quotes |-> RunQuotes],
               [transcript |-> AnalyticsSentence, quotes |-> NestedQuotes],
               [transcript |-> DottedTranscript, quotes |-> DottedQuotes] }

---------------------------------------------------------------------------
(* verifyQuotes and the component around it *)

\* VerificationOf with the verified flag taken from the match kind
VerificationByKind(span, verification, k) ==
    [id |-> k + 1,
     quotedText |-> span.text,
     attribution |-> span.attribution,
     originalSource |-> verification.match,
     isVerified |-> verification.matchType \in {"exact", "partial"},
     matchType |-> verification.matchType,
     confidence |-> verification.confidence,
     transcriptSnippet |-> verification.snippet,
     startIndex |-> verification.startIndex,
     endIndex |-> verification.endIndex]

\* the record pushed for extractedQuotes[k] (k counted from 0); the id
\* `quote-${k + 1}` is kept as the number k + 1
VerificationOf(span, verification, k) ==
    [id |-> k + 1,
     quotedText |-> span.text,
     attribution |-> span.attribution,
     originalSource |-> verification.match,
     isVerified |-> AtLeast(verification.confidence, 50),
     matchType |-> verification.matchType,
     confidence |-> verification.confidence,
     transcriptSnippet |-> verification.snippet,
     startIndex |-> verification.startIndex,
     endIndex |-> verification.endIndex]

\* Push that drops the records of quotes not found
PushUnlessNotFound(list, record) ==
    IF record.matchType = "not_found" THEN list ELSE Append(list, record)

\* newVerifications.push(record)
Push(list, record) == Append(list, record)

\* the props of the component
Props == {"draft", "transcript"}

\* the props of the current render: what a verifyQuotes created by it closes
\* over
CurrentProps == [draft |-> draft, transcript |-> transcript, missing |-> missing]

\* String(undefined): what regex.exec reads when its argument is undefined
UndefinedText == "undefined"

\* a call that returned v, and a call that threw
Value(v) == [threw |-> FALSE, value |-> v]

Threw == [threw |-> TRUE, value |-> << >>]

\* extractQuotesFromDraft(draft) as verifyQuotes calls it.  regex.exec reads
\* an undefined draft as the text "undefined"; after a match the function
\* would throw at draftText.length
extractQuotesFromProp ==
    IF "draft" \in missing
    THEN LET cs == Chars(UndefinedText)
         IN  IF \E p \in 1 .. Len(quotePatterns) : Exec(quotePatterns[p], cs, cs, 0).ok
             THEN Threw
             ELSE Value(<< >>)
    ELSE Value(extractQuotesFromDraft(draft))

\* findQuoteInProp with a cursor shared by the iterations: the quote is
\* looked up in the transcript from the end of the last match on
findQuoteAfterLastMatch(quoteText) ==
    IF "transcript" \in captured.missing
    THEN Threw
    ELSE Value(findQuoteInTranscript(quoteText,
                   IF found.endIndex = None THEN captured.transcript
                   ELSE Substring(captured.transcript, found.endIndex[1],
                                  Len(captured.transcript))))

\* findQuoteInProp reading the transcript of the latest render instead of the
\* one verifyQuotes closed over
findQuoteInCurrentProp(quoteText) ==
    IF "transcript" \in missing
    THEN Threw
    ELSE Value(findQuoteInTranscript(quoteText, transcript))

\* findQuoteInTranscript(quoteText, transcript) as verifyQuotes calls it:
\* normalizeText throws at text.toLowerCase() for an undefined transcript
findQuoteInProp(quoteText) ==
    IF "transcript" \in captured.missing
    THEN Threw
    ELSE Value(findQuoteInTranscript(quoteText, captured.transcript))

\* Caught with setIsChecking(false) at the end of the try block, where a
\* throw skips it
CaughtWithoutReset ==
    /\ toasts' = Append(toasts, "Verification failed")
    /\ isChecking' = TRUE
    /\ pc' = "idle"

\* the catch block, and the setIsChecking(false) that follows it
Caught ==
    /\ toasts' = Append(toasts, "Verification failed")
    /\ isChecking' = FALSE
    /\ pc' = "idle"

\* a list kept from one pass to the next instead of a new one
ListOfEarlierPass == newVerifications

\* const newVerifications = []: the list a pass collects its records in
NewList == << >>

\* BeginPass that carries a pass without quotes through to its end: the
\* empty list stored and handed to onVerificationComplete
BeginPassDeliveringEmpty ==
    LET extraction == extractQuotesFromProp
        extracted == extraction.value
    IN  /\ passes' = passes + 1
        /\ progress' = << 0, 1 >>
        /\ extractedQuotes' = extracted
        /\ IF extraction.threw
           THEN /\ Caught
                /\ UNCHANGED << i, newVerifications, verifications, delivered >>
           ELSE IF Len(extracted) = 0
           THEN /\ toasts' = Append(toasts, "Quote verification complete")
                /\ verifications' = << >>
                /\ delivered' = Append(delivered, << >>)
                /\ isChecking' = FALSE
                /\ pc' = "idle"
                /\ UNCHANGED << i, newVerifications >>
           ELSE /\ isChecking' = TRUE
                /\ newVerifications' = NewList
                /\ i' = 0
                /\ pc' = "await"
                /\ UNCHANGED << toasts, verifications, delivered >>
        /\ captured' = CurrentProps
        /\ UNCHANGED << draft, transcript, missing, quote, found >>

\* BeginPass that empties the stored list when the draft holds no quote
BeginPassClearingResults ==
    LET extraction == extractQuotesFromProp
        extracted == extraction.value
    IN  /\ passes' = passes + 1
        /\ progress' = << 0, 1 >>
        /\ extractedQuotes' = extracted
        /\ IF extraction.threw
           THEN /\ Caught
                /\ UNCHANGED << i, newVerifications, verifications >>
           ELSE IF Len(extracted) = 0
           THEN /\ toasts' = Append(toasts, "No quotes found")
                /\ verifications' = << >>
                /\ isChecking' = FALSE
                /\ pc' = "idle"
                /\ UNCHANGED << i, newVerifications >>
           ELSE /\ isChecking' = TRUE
                /\ newVerifications' = NewList
                /\ i' = 0
                /\ pc' = "await"
                /\ UNCHANGED << toasts, verifications >>
        /\ captured' = CurrentProps
        /\ UNCHANGED << draft, transcript, missing, delivered, quote, found >>

\* verifyQuotes from its call to its first await, or to its return when the
\* draft holds no quote or the extraction throws
BeginPass ==
    LET extraction == extractQuotesFromProp
        extracted == extraction.value
    IN  /\ passes' = passes + 1
        /\ progress' = << 0, 1 >>
        /\ extractedQuotes' = extracted
        /\ IF extraction.threw
           THEN /\ Caught
                /\ UNCHANGED << i, newVerifications >>
           ELSE IF Len(extracted) = 0
           THEN /\ toasts' = Append(toasts, "No quotes found")
                /\ isChecking' = FALSE
                /\ pc' = "idle"
                /\ UNCHANGED << i, newVerifications >>
           ELSE /\ isChecking' = TRUE
                /\ newVerifications' = NewList
                /\ i' = 0
                /\ pc' = "await"
                /\ UNCHANGED toasts
        /\ captured' = CurrentProps
        /\ UNCHANGED << draft, transcript, missing, verifications, delivered, quote, found >>

\* useEffect(() => { if (draft && transcript) verifyQuotes() }, [])
Mount ==
    /\ pc = "unmounted"
    /\ IF missing = {} /\ draft # "" /\ transcript # ""
       THEN BeginPass
       ELSE /\ pc' = "idle"
            /\ UNCHANGED << draft, transcript, missing, captured, isChecking, verifications,
                            progress, i, extractedQuotes, newVerifications, delivered,
                            toasts, passes, quote, found >>

\* the Re-verify button, rendered when not checking: onClick={verifyQuotes}
ReVerify ==
    /\ pc = "idle"
    /\ ~isChecking
    /\ passes < MaxPasses
    /\ BeginPass

\* the 300 ms timer of the loop fires: one iteration, and after the last one
\* the rest of verifyQuotes; a throw of findQuoteInTranscript goes to the catch
TimerFires ==
    /\ pc = "await"
    /\ LET span == extractedQuotes[i + 1]
           call == findQuoteInProp(span.text)
           verification == call.value
           pushed == Push(newVerifications, VerificationOf(span, verification, i))
       IN  /\ quote' = span.text
           /\ IF call.threw
              THEN /\ Caught
                   /\ UNCHANGED << found, newVerifications, progress, i,
                                   verifications, delivered >>
              ELSE /\ found' = verification
                   /\ newVerifications' = pushed
                   /\ progress' = << (i + 1) * 100, Len(extractedQuotes) >>
                   /\ i' = i + 1
                   /\ IF i + 1 < Len(extractedQuotes)
                      THEN UNCHANGED << pc, isChecking, verifications, delivered, toasts >>
                      ELSE /\ verifications' = pushed
                           /\ delivered' = Append(delivered, pushed)
                           /\ toasts' = Append(toasts, "Quote verification complete")
                           /\ isChecking' = FALSE
                           /\ pc' = "idle"
    /\ UNCHANGED << draft, transcript, missing, captured, extractedQuotes, passes >>

Next == Mount \/ ReVerify \/ TimerFires

\* a prop is given, with one of the texts, or passed as undefined
Init ==
    /\ missing \in SUBSET Props
    /\ draft \in (IF "draft" \in missing THEN {""} ELSE PassDrafts)
    /\ transcript \in (IF "transcript" \in missing THEN {""} ELSE PassTranscripts)
    /\ captured = CurrentProps
    /\ isChecking = FALSE
    /\ verifications = << >>
    /\ progress = << 0, 1 >>
    /\ pc = "unmounted"
    /\ i = 0
    /\ extractedQuotes = << >>
    /\ newVerifications = << >>
    /\ delivered = << >>
    /\ toasts = << >>
    /\ passes = 0
    /\ quote = ""
    /\ found = NotFound

Spec == Init /\ [][Next]_vars

---------------------------------------------------------------------------
(* The component under a parent that renders it again with other props *)

\* the drafts of those renders: one quote, two quotes, no quote
RenderDrafts == { DraftOf(1, 0), DraftOf(1, 5), DraftOf(8, 0) }

\* the props a render passes
RenderProps ==
    { [draft |-> d, transcript |-> t, missing |-> {}] :
        d \in RenderDrafts, t \in PassTranscripts }
    \cup { [draft |-> DraftOf(1, 0), transcript |-> "", missing |-> {"transcript"}] }

\* the parent renders the mounted component with other props; the state of
\* the component and a verifyQuotes that is running keep what they hold
ParentRenders ==
    /\ pc # "unmounted"
    /\ \E props \in RenderProps :
          /\ props # CurrentProps
          /\ draft' = props.draft
          /\ transcript' = props.transcript
          /\ missing' = props.missing
    /\ UNCHANGED << captured, isChecking, verifications, progress, pc, i,
                    extractedQuotes, newVerifications, delivered, toasts, passes,
                    quote, found >>

RenderNext == Mount \/ ReVerify \/ TimerFires \/ ParentRenders

RenderInit ==
    /\ \E props \in RenderProps :
          /\ draft = props.draft
          /\ transcript = props.transcript
          /\ missing = props.missing
    /\ captured = CurrentProps
    /\ isChecking = FALSE
    /\ verifications = << >>
    /\ progress = << 0, 1 >>
    /\ pc = "unmounted"
    /\ i = 0
    /\ extractedQuotes = << >>
    /\ newVerifications = << >>
    /\ delivered = << >>
    /\ toasts = << >>
    /\ passes = 0
    /\ quote = ""
    /\ found = NotFound

\* The timer of an iteration that waits does fire: weak fairness of
\* TimerFires, WF_vars(TimerFires), with ENABLED <<TimerFires>>_vars written
\* out. TimerFires is enabled exactly while pc = "await", where it either
\* advances i or leaves for "idle".
TimerFairness == []<>(pc # "await") \/ []<><<TimerFires>>_vars

RenderSpec == RenderInit /\ [][RenderNext]_vars /\ TimerFairness

---------------------------------------------------------------------------
(* extractQuotesFromDraft alone: one call on a draft *)

ExtractInit ==
    /\ draft \in Drafts
    /\ transcript = ""
    /\ missing = {}
    /\ captured = CurrentProps
    /\ isChecking = FALSE
    /\ verifications = << >>
    /\ progress = << 0, 1 >>
    /\ pc = "call"
    /\ i = 0
    /\ extractedQuotes = << >>
    /\ newVerifications = << >>
    /\ delivered = << >>
    /\ toasts = << >>
    /\ passes = 0
    /\ quote = ""
    /\ found = NotFound

ExtractCall ==
    /\ pc = "call"
    /\ extractedQuotes' = extractQuotesFromDraft(draft)
    /\ pc' = "returned"
    /\ UNCHANGED << draft, transcript, missing, captured, isChecking, verifications, progress, i,
                    newVerifications, delivered, toasts, passes, quote, found >>

ExtractSpec == ExtractInit /\ [][ExtractCall]_vars

---------------------------------------------------------------------------
(* findQuoteInTranscript alone: one call on a quote and a transcript *)

MatchInit ==
    /\ draft = ""
    /\ \E scenario \in MatchScenarios :
          /\ transcript = scenario.transcript
          /\ quote \in scenario.quotes
    /\ missing = {}
    /\ captured = CurrentProps
    /\ isChecking = FALSE
    /\ verifications = << >>
    /\ progress = << 0, 1 >>
    /\ pc = "call"
    /\ i = 0
    /\ extractedQuotes = << >>
    /\ newVerifications = << >>
    /\ delivered = << >>
    /\ toasts = << >>
    /\ passes = 0
    /\ found = NotFound

MatchCall ==
    /\ pc = "call"
    /\ found' = findQuoteInTranscript(quote, transcript)
    /\ pc' = "returned"
    /\ UNCHANGED << draft, transcript, missing, captured, isChecking, verifications, progress, i,
                    extractedQuotes, newVerifications, delivered, toasts, passes,
                    quote >>

MatchSpec == MatchInit /\ [][MatchCall]_vars

---------------------------------------------------------------------------
(* ReviewExport: runQuoteChecker with its own extractQuotesFromDraft,       *)
(* verifyQuoteInTranscript and findBestMatch.  A confidence is here the     *)
(* proportion num / den.                                                    *)

\* .replace(/[^\w\s]/g, '')
DeleteNonWord(s) ==
    Concat([k \in 1 .. Len(s) |->
               LET c == CharAt(s, k - 1)
               IN  IF c \in WordChars \/ c \in SpaceChars THEN c ELSE ""],
           0, Len(s))

\* text.toLowerCase().replace(/[^\w\s]/g, '')
Clean(text) == DeleteNonWord(ToLowerCase(text))

\* the first offset of s at which a character of set stands, else -1
FirstOf(s, set) ==
    LET hits == { k \in 0 .. (Len(s) - 1) : CharAt(s, k) \in set }
    IN  IF hits = {} THEN -1 ELSE CHOOSE k \in hits : \A m \in hits : k <= m

\* s without the characters of set it begins with
RECURSIVE SkipRun(_, _)
SkipRun(s, set) == IF s # "" /\ CharAt(s, 0) \in set THEN SkipRun(Rest(s), set) ELSE s

\* s.split(/[set]+/): the pieces between the runs of characters of set
RECURSIVE SplitOnRuns(_, _)
SplitOnRuns(s, set) ==
    LET k == FirstOf(s, set)
    IN  IF k = -1 THEN << s >>
        ELSE << StrSlice(s, 0, k) >> \o SplitOnRuns(SkipRun(StrSlice(s, k, Len(s)), set), set)

\* words.filter(word => text.includes(word)).length
CountIncluded(words, text) ==
    Cardinality({ k \in 1 .. Len(words) : Includes(text, words[k]) })

\* the loop of findBestMatch over the sentences; the scores of one call
\* have the same denominator, so the counts are compared
RECURSIVE BestSentence(_, _, _, _)
BestSentence(sentences, words, bestMatch, bestScore) ==
    IF sentences = << >> THEN bestMatch
    ELSE LET sentence == Head(sentences)
             score == CountIncluded(words, Clean(sentence))
         IN  IF score > bestScore
             THEN BestSentence(Tail(sentences), words, Trim(sentence), score)
             ELSE BestSentence(Tail(sentences), words, bestMatch, bestScore)

findBestMatch(words, transcriptText) ==
    OrElse(BestSentence(SplitOnRuns(transcriptText, {".", "!", "?"}), words, "", 0),
           "No matching context found")

\* c >= tenths / 10 for a proportion c
AtLeastTenths(c, tenths) == 10 * c.num >= tenths * c.den

verifyQuoteInTranscript(q, transcriptText) ==
    LET cleanQuote == Clean(q.text)
        cleanTranscript == Clean(transcriptText)
    IN  IF Includes(cleanTranscript, cleanQuote)
        THEN LET startIndex == IndexOf(cleanTranscript, cleanQuote)
                 originalSource ==
                     Substring(transcriptText, Max(0, startIndex - 50),
                               Min(Len(transcriptText), startIndex + Len(cleanQuote) + 50))
             IN  [isVerified |-> TRUE, matchType |-> "exact", confidence |-> Conf(1, 1),
                  originalSource |-> Some(Trim(originalSource))]
        ELSE LET quoteWords == SplitOnRuns(cleanQuote, SpaceChars)
                 confidence == Conf(CountIncluded(quoteWords, cleanTranscript),
                                    Len(quoteWords))
             IN  IF AtLeastTenths(confidence, 7)
                 THEN [isVerified |-> AtLeastTenths(confidence, 8),
                       matchType |-> IF AtLeastTenths(confidence, 8)
                                     THEN "partial" ELSE "paraphrased",
                       confidence |-> confidence,
                       originalSource |-> Some(findBestMatch(quoteWords, transcriptText))]
                 ELSE [isVerified |-> FALSE, matchType |-> "not_found",
                       confidence |-> Conf(0, 1), originalSource |-> None]

\* the characters of s, as a tuple
CharTuple(s) == SubSeq(Chars(s), 1, Len(s))

\* /"([^"]+)"/g
QuotesRegex ==
    << Lit(<< "\"" >>), Open(1), Cls({"\""}, TRUE, 1, -1, FALSE), Close(1),
       Lit(<< "\"" >>) >>

\* /(?:said|says|told|explained|noted|stated|according to)\s+([^,.]+)(?:[,.]|$)/i
\* The greedy [^,.]+ stops before a comma, a full stop or the end of the
\* context, so the closing (?:[,.]|$) matches where it stops and takes part
\* in no backtracking; it is outside group 1, the only part read.
AttributionRegex ==
    << Lit(<< "said", "says", "told", "explained", "noted", "stated", "according to" >>),
       Cls(SpaceChars, FALSE, 1, -1, FALSE),
       Open(1), Cls({",", "."}, TRUE, 1, -1, FALSE), Close(1) >>

\* the while loop of ReviewExport's extractQuotesFromDraft, from
\* quotesRegex.lastIndex = lastIndex on
RECURSIVE QuotesRegexLoop(_, _, _)
QuotesRegexLoop(draftText, cs, lastIndex) ==
    LET m == Exec(QuotesRegex, cs, cs, lastIndex)
    IN  IF ~m.ok THEN << >>
        ELSE LET quotedText == Group(draftText, m, 1)
                 context == Substring(draftText, Max(0, m.index - 100), m.end + 100)
                 attributionMatch ==
                     Exec(AttributionRegex, CharTuple(context), CharTuple(ToLowerCase(context)), 0)
             IN  << [text |-> quotedText,
                     attribution |-> IF attributionMatch.ok
                                     THEN Trim(Group(context, attributionMatch, 1))
                                     ELSE "Unknown"] >>
                     \o QuotesRegexLoop(draftText, cs, m.end)

\* ReviewExport's extractQuotesFromDraft
extractAllQuotesFromDraft(draftText) ==
    QuotesRegexLoop(draftText, CharTuple(draftText), 0)

\* the ids Math.random().toString(36).substr(2, 9) may give
GeneratedIds == {"k3j9x0qpa", "z81mfo2cd"}

\* the transcripts of runQuoteChecker
ReviewTranscripts ==
    PassTranscripts \cup {"Ann: we scaled the systems, and we doubled sales."}

\* the record runQuoteChecker pushes
ReviewVerificationOf(q, verification, id) ==
    [id |-> id,
     quotedText |-> q.text,
     attribution |-> q.attribution,
     originalSource |-> verification.originalSource,
     isVerified |-> verification.isVerified,
     matchType |-> verification.matchType,
     confidence |-> verification.confidence]

\* the most clicks on Run Quote Check
MaxChecks == 1

\* The button Run Quote Check, enabled when not checking.  Each await of the
\* loop waits for a promise that is already settled, so the handler runs to
\* its end before the next event is handled.
runQuoteChecker ==
    /\ ~isChecking
    /\ passes < MaxChecks
    /\ LET quotesInDraft == extractAllQuotesFromDraft(draft)
           results == [k \in 1 .. Len(quotesInDraft) |->
                          verifyQuoteInTranscript(quotesInDraft[k], transcript)]
       IN  /\ extractedQuotes' = quotesInDraft
           /\ \E ids \in [1 .. Len(quotesInDraft) -> GeneratedIds] :
                  LET list == [k \in 1 .. Len(quotesInDraft) |->
                                  ReviewVerificationOf(quotesInDraft[k], results[k], ids[k])]
                  IN  /\ verifications' = list
                      /\ delivered' = Append(delivered, list)
    /\ toasts' = Append(toasts, "Quote verification complete")
    /\ passes' = passes + 1
    /\ UNCHANGED << draft, transcript, missing, captured, isChecking, progress, pc, i,
                    newVerifications, quote, found >>

ReviewInit ==
    /\ draft \in Drafts
    /\ transcript \in ReviewTranscripts
    /\ missing = {}
    /\ captured = CurrentProps
    /\ isChecking = FALSE
    /\ verifications = << >>
    /\ progress = << 0, 1 >>
    /\ pc = "idle"
    /\ i = 0
    /\ extractedQuotes = << >>
    /\ newVerifications = << >>
    /\ delivered = << >>
    /\ toasts = << >>
    /\ passes = 0
    /\ quote = ""
    /\ found = NotFound

ReviewSpec == ReviewInit /\ [][runQuoteChecker]_vars

---------------------------------------------------------------------------
(* The claims *)

\* q is a contiguous substring of t of at least 20 characters
IsLongSubstring(q, t) == Len(q) >= MinQuoteLength /\ Includes(t, q)

\* C1: for a transcript T and a contiguous substring Q of T of at least 20
\* characters, findQuoteInTranscript(Q, T) returns matchType exact with
\* confidence 100.
C1_ExactRoundTrip ==
    (pc = "returned" /\ IsLongSubstring(quote, transcript))
        => (found.matchType = "exact" /\ found.confidence = Conf(100, 1))

\* a substring that normalization changes has been matched exactly
C1_Witness ==
    /\ pc = "returned"
    /\ IsLongSubstring(quote, transcript)
    /\ normalizeText(quote) # quote
    /\ ~Includes(transcript, normalizeText(quote))
    /\ found.matchType = "exact"

\* every record of the list has isVerified exactly when its confidence is
\* at least 50
ThresholdConsistent(list) ==
    \A k \in 1 .. Len(list) : list[k].isVerified <=> AtLeast(list[k].confidence, 50)

\* C2: every verification record verifyQuotes builds (being collected,
\* stored or handed to onVerificationComplete) has isVerified true exactly
\* when its confidence is at least 50, whatever its matchType.
C2_ThresholdConsistency ==
    /\ ThresholdConsistent(newVerifications)
    /\ ThresholdConsistent(verifications)
    /\ \A d \in 1 .. Len(delivered) : ThresholdConsistent(delivered[d])

\* a stored list holds a verified paraphrased record and an unverified one
C2_Witness ==
    /\ \E k \in 1 .. Len(verifications) :
          /\ verifications[k].matchType = "paraphrased"
          /\ verifications[k].isVerified
    /\ \E k \in 1 .. Len(verifications) : ~verifications[k].isVerified

\* the confidence is exactly 100
IsFull(c) == c.num = 100 * c.den

\* C3: the match kind of a result is a function of its confidence: exact
\* iff 100, partial iff 70 <= confidence < 100, paraphrased iff
\* 30 <= confidence < 70, not_found otherwise.
C3_KindFromConfidence ==
    pc = "returned" =>
        /\ found.matchType = "exact" <=> IsFull(found.confidence)
        /\ found.matchType = "partial" <=>
              (AtLeast(found.confidence, 70) /\ ~IsFull(found.confidence))
        /\ found.matchType = "paraphrased" <=>
              (AtLeast(found.confidence, 30) /\ Below(found.confidence, 70))
        /\ found.matchType = "not_found" <=> Below(found.confidence, 30)

\* a window match of 3 of 4 words: partial at 75
C3_Witness ==
    /\ pc = "returned"
    /\ found.matchType = "partial"
    /\ found.confidence = Conf(300, 4)

\* C4: for an exact result the offsets index the original transcript:
\* normalizing transcript[startIndex, endIndex) gives the normalized quote.
C4_ExactOffsetsInOriginal ==
    (pc = "returned" /\ found.matchType = "exact") =>
        normalizeText(Substring(transcript, found.startIndex[1], found.endIndex[1]))
            = normalizeText(quote)

\* the records of list carry, in order, the texts and attributions of spans
CarriesSpans(list, spans) ==
    \A k \in 1 .. Len(list) :
        /\ list[k].quotedText = spans[k].text
        /\ list[k].attribution = spans[k].attribution

\* C5: a pass that extracted n >= 1 spans ends with exactly n records,
\* record k carrying the text and attribution of span k; while the pass
\* runs, the records so far are those of the first spans.
C5_OneRecordPerSpan ==
    /\ (pc = "await") =>
          /\ Len(newVerifications) = i
          /\ i < Len(extractedQuotes)
          /\ CarriesSpans(newVerifications, extractedQuotes)
    /\ (pc = "idle" /\ Len(extractedQuotes) >= 1
           /\ toasts[Len(toasts)] = "Quote verification complete") =>
          /\ Len(verifications) = Len(extractedQuotes)
          /\ CarriesSpans(verifications, extractedQuotes)
          /\ delivered[Len(delivered)] = verifications

\* a pass over two spans has ended, one of them not found
C5_Witness ==
    /\ pc = "idle"
    /\ Len(extractedQuotes) = 2
    /\ Len(verifications) = 2
    /\ \E k \in 1 .. 2 : verifications[k].matchType = "not_found"

\* the matches regex.exec finds for one pattern from lastIndex on, in order
RECURSIVE AllMatches(_, _, _, _)
AllMatches(pattern, cs, low, lastIndex) ==
    LET m == Exec(pattern, cs, low, lastIndex)
    IN  IF ~m.ok THEN << >> ELSE << m >> \o AllMatches(pattern, cs, low, m.end)

MatchesOf(p, draftText) ==
    AllMatches(quotePatterns[p], Chars(draftText), Chars(ToLowerCase(draftText)), 0)

\* the offsets of the quotation marks of s, in order
QuoteMarks(s) == { k \in 0 .. (Len(s) - 1) : CharAt(s, k) = "\"" }

\* the double-quoted spans of s: the text between the 1st and 2nd quotation
\* mark, between the 3rd and 4th, ...
QuotedSpans(s) ==
    LET marks == QuoteMarks(s)
        before(k) == Cardinality({ m \in marks : m < k })
    IN  { StrSlice(s, ab[1] + 1, ab[2]) :
            ab \in { p \in marks \X marks :
                       /\ p[1] < p[2]
                       /\ before(p[1]) % 2 = 0
                       /\ before(p[2]) = before(p[1]) + 1 } }

\* the content of a double-quoted span: without the comma that may close
\* it inside the quotation marks, and trimmed
QuoteContent(q) ==
    Trim(IF q # "" /\ CharAt(q, Len(q) - 1) = "," THEN StrSlice(q, 0, Len(q) - 1) ELSE q)

\* the content is in the list returned (as the text of a span or, where the
\* two fragments of a match are taken the other way round, as its attribution)
Returned(content) ==
    \E k \in 1 .. Len(extractedQuotes) :
        \/ extractedQuotes[k].text = content
        \/ extractedQuotes[k].attribution = content

\* C6: extractQuotesFromDraft returns every double-quoted span of at least
\* 20 characters of the draft; a span next to which no attribution pattern
\* matches is returned too, not omitted.
C6_EveryQuotedSpanReturned ==
    pc = "returned" =>
        \A q \in QuotedSpans(draft) :
            Len(QuoteContent(q)) >= MinQuoteLength => Returned(QuoteContent(q))

\* the group of pattern p that stands between the quotation marks, and the
\* group that holds the attribution (patterns 2 and 4 name the attribution
\* first, pattern 3 the quote)
QuoteGroup(p) == IF p = 3 THEN 1 ELSE 2

AttributionGroup(p) == IF p = 3 THEN 2 ELSE 1

\* C7: for a fragment matching shape 2, 3 or 4 the span returned has as text
\* the content between the quotation marks and as attribution the phrase
\* outside them.
C7_QuoteAndAttributionRoles ==
    pc = "returned" =>
        \A p \in {2, 3, 4} :
            \A n \in 1 .. Len(MatchesOf(p, draft)) :
                LET m == MatchesOf(p, draft)[n]
                IN  \E k \in 1 .. Len(extractedQuotes) :
                        /\ extractedQuotes[k].text
                               = Trim(Group(draft, m, QuoteGroup(p)))
                        /\ extractedQuotes[k].attribution
                               = Trim(Group(draft, m, AttributionGroup(p)))

\* C8: the list returned never holds two spans with the same text and
\* attribution.
C8_NoDuplicateSpans ==
    pc = "returned" =>
        \A j \in 1 .. Len(extractedQuotes) : \A k \in 1 .. Len(extractedQuotes) :
            j < k =>
                << extractedQuotes[j].text, extractedQuotes[j].attribution >>
                    # << extractedQuotes[k].text, extractedQuotes[k].attribution >>

\* the offsets at which the matches behind the returned spans start, in
\* the order the spans are returned
RECURSIVE PushedStarts(_, _, _)
PushedStarts(pattern, draftText, matches) ==
    IF matches = << >> THEN << >>
    ELSE (IF SpansOfMatch(pattern, draftText, Head(matches)) = << >>
          THEN << >> ELSE << Head(matches).index >>)
             \o PushedStarts(pattern, draftText, Tail(matches))

RECURSIVE StartsFrom(_, _)
StartsFrom(p, draftText) ==
    IF p > Len(quotePatterns) THEN << >>
    ELSE PushedStarts(quotePatterns[p], draftText, MatchesOf(p, draftText))
             \o StartsFrom(p + 1, draftText)

\* C9: the spans are returned in the order in which their matches start in
\* the draft, whichever pattern matched each.
C9_OrderedByPosition ==
    pc = "returned" =>
        LET starts == StartsFrom(1, draft)
        IN  /\ Len(starts) = Len(extractedQuotes)
            /\ \A j \in 1 .. Len(starts) : \A k \in 1 .. Len(starts) :
                   j < k => starts[j] <= starts[k]

\* C10: every span returned has a text of at least 20 characters once its
\* surrounding whitespace is trimmed.
C10_TrimmedTextLongEnough ==
    pc = "returned" =>
        \A k \in 1 .. Len(extractedQuotes) :
            Len(Trim(extractedQuotes[k].text)) >= MinQuoteLength

\* C11: for a draft without quotation marks (the empty draft included)
\* extractQuotesFromDraft returns the empty list, and every pass ends with
\* the toast "No quotes found"; nothing is handed to onVerificationComplete.
C11_NoQuotesOutcome ==
    (missing = {} /\ QuoteMarks(draft) = {}) =>
        /\ pc # "await"
        /\ extractedQuotes = << >>
        /\ delivered = << >>
        /\ Len(toasts) = passes
        /\ \A k \in 1 .. Len(toasts) : toasts[k] = "No quotes found"

\* the mount's pass and a Re-verify pass over plain prose have ended
C11_Witness ==
    /\ missing = {}
    /\ draft # ""
    /\ QuoteMarks(draft) = {}
    /\ pc = "idle"
    /\ toasts = << "No quotes found", "No quotes found" >>

\* the words of the normalized quote
QuoteWordsOf(q) == Split(normalizeText(q))

\* the exact tier applies: the normalized transcript contains the normalized
\* quote
ExactApplies(q, t) == Includes(normalizeText(t), normalizeText(q))

\* some run of w consecutive words occurs in the normalized transcript
RunOccurs(words, normalizedTranscript, w) ==
    \E k \in 0 .. (Len(words) - w) :
        Includes(normalizedTranscript, Join(Slice(words, k, k + w), " "))

LargestRunIn(words, normalizedTranscript) ==
    LET sizes == { w \in 3 .. Min(Len(words), 8) : RunOccurs(words, normalizedTranscript, w) }
    IN  IF sizes = {} THEN 0 ELSE CHOOSE w \in sizes : \A v \in sizes : v <= w

\* the largest size in 3 .. min(n, 8) of a run of consecutive quote words
\* that occurs in the normalized transcript; 0 if there is none
LargestRun(q, t) == LargestRunIn(QuoteWordsOf(q), normalizeText(t))

\* how many quote words longer than 3 characters occur in the normalized
\* transcript
WordsFound(q, t) ==
    LET words == QuoteWordsOf(q)
    IN  Cardinality({ k \in 1 .. Len(words) :
                        Len(words[k]) > 3 /\ Includes(normalizeText(t), words[k]) })

\* no tier reaches 30: neither the largest run over the quote's words at 100
\* nor the words found over the quote's words at 80
BestBelow30(q, t) ==
    /\ ~ExactApplies(q, t)
    /\ LargestRun(q, t) * 100 < 30 * Len(QuoteWordsOf(q))
    /\ WordsFound(q, t) * 80 < 30 * Len(QuoteWordsOf(q))

\* C12: when the best confidence of all tiers is below 30 the result is
\* not_found, without snippet and offsets, with confidence 0; the reported
\* confidence is never strictly between 0 and 30.
C12_BelowThresholdNotFound ==
    pc = "returned" =>
        /\ BestBelow30(quote, transcript) =>
              /\ found.matchType = "not_found"
              /\ found.match = None
              /\ found.snippet = None
              /\ found.startIndex = None
              /\ found.endIndex = None
              /\ found.confidence.num = 0
        /\ found.confidence.num = 0 \/ AtLeast(found.confidence, 30)

\* the scattered tier found one word of four (20) and the result is not_found
C12_Witness ==
    /\ pc = "returned"
    /\ Len(QuoteWordsOf(quote)) = 4
    /\ WordsFound(quote, transcript) = 1
    /\ LargestRun(quote, transcript) = 0
    /\ found = NotFound

\* the words of the normalized transcript
TranscriptWords(t) == { QuoteWordsOf(t)[k] : k \in 1 .. Len(QuoteWordsOf(t)) }

\* the word does not occur in the transcript
Absent(word, t) == ~Includes(normalizeText(t), normalizeText(word))

\* a word that occurs in none of the transcripts
AbsentWord == "zeta"

\* the quotes that give q when their last word is cut off
Untruncated(q, t) == { q \o " " \o w : w \in TranscriptWords(t) \cup {AbsentWord} }

\* the quotes that give q when one of their words is replaced by a word
\* that does not occur in the transcript
Unreplaced(q, t) ==
    LET words == Split(q)
    IN  { Join([words EXCEPT ![k] = w], " ") :
            k \in { j \in 1 .. Len(words) : Absent(words[j], t) },
            w \in TranscriptWords(t) }

\* C13: for a fixed transcript, a quote obtained from another by truncating
\* it or by replacing a word with one that does not occur in the transcript
\* gets a confidence that is not greater.
C13_Monotonicity ==
    pc = "returned" =>
        \A q1 \in Untruncated(quote, transcript) \cup Unreplaced(quote, transcript) :
            ~Greater(found.confidence, findQuoteInTranscript(q1, transcript).confidence)

\* the record without its id
WithoutId(record) == [record EXCEPT !.id = 0]

WithoutIds(list) == [k \in 1 .. Len(list) |-> WithoutId(list[k])]

\* C14: the passes of a component, all on the same draft and transcript,
\* hand over identical record lists, the ids excepted, and the list stored
\* is that list too.
C14_PassesIdempotent ==
    /\ \A j \in 1 .. Len(delivered) : \A k \in 1 .. Len(delivered) :
           WithoutIds(delivered[j]) = WithoutIds(delivered[k])
    /\ delivered # << >> =>
           WithoutIds(verifications) = WithoutIds(delivered[1])

\* two passes over two spans have ended, one span found and one not
C14_Witness ==
    /\ pc = "idle"
    /\ Len(delivered) = 2
    /\ Len(delivered[2]) = 2
    /\ \E k \in 1 .. 2 : delivered[2][k].matchType = "not_found"
    /\ \E k \in 1 .. 2 : delivered[2][k].matchType # "not_found"

\* the match fields of the record are those of its text looked up in t
MatchedAlone(record, t) ==
    LET alone == findQuoteInTranscript(record.quotedText, t)
    IN  /\ record.matchType = alone.matchType
        /\ record.confidence = alone.confidence
        /\ record.transcriptSnippet = alone.snippet
        /\ record.startIndex = alone.startIndex
        /\ record.endIndex = alone.endIndex

\* C15: the matchType, confidence, snippet and offsets of every record of a
\* pass are those its span's text gets when looked up in the transcript on
\* its own, whatever the other spans of the pass and their order.
C15_RecordsIndependent ==
    /\ \A k \in 1 .. Len(newVerifications) : MatchedAlone(newVerifications[k], transcript)
    /\ \A k \in 1 .. Len(verifications) : MatchedAlone(verifications[k], transcript)

\* a pass over two different spans has ended, both found at different places
C15_Witness ==
    /\ pc = "idle"
    /\ Len(verifications) = 2
    /\ verifications[1].quotedText # verifications[2].quotedText
    /\ verifications[1].matchType # "not_found"
    /\ verifications[2].matchType # "not_found"
    /\ verifications[1].startIndex # verifications[2].startIndex

\* C16: for a quote that normalizes to the empty string (empty, whitespace
\* only) findQuoteInTranscript returns not_found with confidence 0, whatever
\* the transcript.
C16_BlankQuoteNotFound ==
    (pc = "returned" /\ normalizeText(quote) = "") =>
        /\ found.matchType = "not_found"
        /\ found.confidence.num = 0

\* C17: a pass started with an undefined draft or transcript ends with the
\* toast "Verification failed": never with "No quotes found", never with a
\* list handed to onVerificationComplete.
C17_UndefinedPropFails ==
    missing # {} =>
        /\ delivered = << >>
        /\ \A k \in 1 .. Len(toasts) : toasts[k] = "Verification failed"

\* how many quote words, of any length, occur in the normalized transcript
WordsOccurring(q, t) ==
    LET words == QuoteWordsOf(q)
    IN  Cardinality({ k \in 1 .. Len(words) : Includes(normalizeText(t), words[k]) })

\* an 8-word quote, exactly 4 of its words in the transcript, no run of 3
FourOfEightScattered(q, t) ==
    /\ Len(QuoteWordsOf(q)) = 8
    /\ WordsOccurring(q, t) = 4
    /\ LargestRun(q, t) = 0

\* C18, as stated: for an 8-word quote of which exactly 4 words occur in the
\* transcript, scattered, with no run of 3 consecutive quote words, the
\* result is paraphrased.
C18_FourOfEightParaphrased ==
    (pc = "returned" /\ FourOfEightScattered(quote, transcript)) =>
        found.matchType = "paraphrased"

\* C18, amended: when each of the 4 words that occur is longer than 3
\* characters, the result is paraphrased, with confidence 40, and its
\* segments are the 4 words.
C18_FourLongOfEightParaphrased ==
    (pc = "returned" /\ FourOfEightScattered(quote, transcript)
        /\ WordsFound(quote, transcript) = 4) =>
            /\ found.matchType = "paraphrased"
            /\ found.confidence = Conf(320, 8)

\* such a quote has been looked up and its four words located, the first
\* at the start of the transcript
C18_Witness ==
    /\ pc = "returned"
    /\ FourOfEightScattered(quote, transcript)
    /\ WordsFound(quote, transcript) = 4
    /\ found.matchType = "paraphrased"
    /\ found.startIndex = Some(0)

\* C19: with a transcript containing the sentence "the team scaled
\* infrastructure to support real-time analytics ..." and the quote "we
\* scaled infrastructure for real-time analytics", the confidence is in
\* [30, 70) and the matchType is paraphrased or partial, not exact.
C19_AnalyticsParaphrase ==
    (pc = "returned" /\ quote = AnalyticsQuote /\ Includes(transcript, AnalyticsSentence)) =>
        /\ AtLeast(found.confidence, 30)
        /\ Below(found.confidence, 70)
        /\ found.matchType \in {"paraphrased", "partial"}

\* the quote looked up in the sentence among other sentences: 5 of its 7
\* words found, at 80
C19_Witness ==
    /\ pc = "returned"
    /\ quote = AnalyticsQuote
    /\ Includes(transcript, AnalyticsSentence)
    /\ transcript # AnalyticsSentence
    /\ found.confidence = Conf(400, 7)
    /\ found.matchType = "paraphrased"

\* C20: every record runQuoteChecker builds has isVerified true exactly
\* when its confidence is at least 0.5, whatever its match kind.
C20_ReviewThresholdConsistency ==
    \A d \in 1 .. Len(delivered) : \A k \in 1 .. Len(delivered[d]) :
        delivered[d][k].isVerified <=> AtLeastTenths(delivered[d][k].confidence, 5)

\* the reference normalization: lower-case, every character that is neither
\* a word character nor whitespace deleted, runs of whitespace collapsed,
\* trimmed
ReferenceNormalization(text) == Trim(CollapseSpaces(DeleteNonWord(ToLowerCase(text))))

\* C21: normalizeText(x) equals the reference normalization, for the quote
\* and for the transcript, also when punctuation sits inside a word.
C21_NormalizeAsReference ==
    pc = "returned" =>
        /\ normalizeText(quote) = ReferenceNormalization(quote)
        /\ normalizeText(transcript) = ReferenceNormalization(transcript)

\* the window tier's best match for quote q in transcript t
WindowBest(q, t) == WindowTier(QuoteWordsOf(q), normalizeText(t), t)

\* the first run of w consecutive words of q that occurs in the normalized
\* transcript
FirstRunIn(words, normalizedTranscript, w) ==
    LET k == CHOOSE k \in 0 .. (Len(words) - w) :
                 /\ Includes(normalizedTranscript, Join(Slice(words, k, k + w), " "))
                 /\ \A j \in 0 .. (k - 1) :
                        ~Includes(normalizedTranscript, Join(Slice(words, j, j + w), " "))
    IN  Slice(words, k, k + w)

FirstRun(q, t, w) == FirstRunIn(QuoteWordsOf(q), normalizeText(t), w)

\* C22: when the exact tier does not apply, the window tier yields k / n of
\* 100, k the largest size in 3 .. min(n, 8) of a run of consecutive quote
\* words occurring in the normalized transcript, 0 if there is none; its
\* words are the first run of that size, never a smaller run found later.
C22_WindowConfidence ==
    (pc = "returned" /\ ~ExactApplies(quote, transcript)) =>
        LET best == WindowBest(quote, transcript)
            n == Len(QuoteWordsOf(quote))
            k == LargestRun(quote, transcript)
        IN  /\ best.confidence.num * n = k * 100 * best.confidence.den
            /\ k = 0 => best = NoMatch
            /\ k > 0 => /\ best.words = FirstRun(quote, transcript, k)
                        /\ Len(best.segments) = 1

\* a run of 4 of 8 quote words occurs, and runs of 3 words occur further on
\* in the quote
C22_Witness ==
    /\ pc = "returned"
    /\ ~ExactApplies(quote, transcript)
    /\ Len(QuoteWordsOf(quote)) = 8
    /\ LargestRun(quote, transcript) = 4
    /\ WindowBest(quote, transcript).words = <<"the", "alpha", "beta", "gamma">>
    /\ Includes(normalizeText(transcript), "the alpha beta")
    /\ found.confidence = Conf(400, 8)

\* the window tier reaches 50 for quote q in transcript t
WindowReachesHalf(q, t) ==
    /\ ~ExactApplies(q, t)
    /\ LargestRun(q, t) * 100 >= 50 * Len(QuoteWordsOf(q))

\* C23: whenever the window tier reaches 50 the returned confidence, snippet
\* and offsets are the window tier's: the first largest run of quote words,
\* where the normalized transcript first holds it, however many other quote
\* words occur in the transcript.
C23_WindowKeptFromHalf ==
    (pc = "returned" /\ WindowReachesHalf(quote, transcript)) =>
        LET k == LargestRun(quote, transcript)
            window == Join(FirstRun(quote, transcript, k), " ")
            start == IndexOf(normalizeText(transcript), window)
        IN  /\ found.confidence.num * Len(QuoteWordsOf(quote))
                  = k * 100 * found.confidence.den
            /\ found.startIndex = Some(start)
            /\ found.endIndex = Some(start + Len(window))
            /\ found.snippet = Some(Substring(transcript, start, start + Len(window)))
            /\ found.match = found.snippet

\* a run of 3 of 6 quote words gives 50 while all 6 words, each longer than 3
\* characters, occur in the transcript (80 for the scattered tier)
C23_Witness ==
    /\ pc = "returned"
    /\ WindowReachesHalf(quote, transcript)
    /\ LargestRun(quote, transcript) = 3
    /\ Len(QuoteWordsOf(quote)) = 6
    /\ WordsFound(quote, transcript) = 6
    /\ found.confidence = Conf(300, 6)

\* the scattered tier runs for quote q in transcript t
ScatterRuns(q, t) ==
    /\ ~ExactApplies(q, t)
    /\ LargestRun(q, t) * 100 < 50 * Len(QuoteWordsOf(q))

\* C24: when the scattered tier runs its confidence is the quote words longer
\* than 3 characters that occur in the normalized transcript, over the quote's
\* words, at 80; it replaces the window tier's result only if strictly
\* greater, and no result it produces exceeds 80.
C24_ScatterConfidence ==
    (pc = "returned" /\ ScatterRuns(quote, transcript)) =>
        LET n == Len(QuoteWordsOf(quote))
            k == LargestRun(quote, transcript)
            scattered == WordsFound(quote, transcript) * 80
            window == k * 100
        IN  /\ ~AtLeast(found.confidence, 81)
            /\ (scattered > window /\ scattered >= 30 * n) =>
                   found.confidence.num * n = scattered * found.confidence.den
            /\ (scattered <= window /\ window >= 30 * n) =>
                   LET run == Join(FirstRun(quote, transcript, k), " ")
                       start == IndexOf(normalizeText(transcript), run)
                   IN  /\ found.confidence.num * n = window * found.confidence.den
                       /\ found.startIndex = Some(start)
                       /\ found.endIndex = Some(start + Len(run))
                       /\ found.snippet = Some(Substring(transcript, start, start + Len(run)))

\* the best match of the window and scattered tiers for quote q in
\* transcript t
BestOfTiers(q, t) ==
    ScatterTier(QuoteWordsOf(q), normalizeText(t), t, WindowBest(q, t))

\* the result for q in t is built from several segments
SeveralSegments(q, t) ==
    /\ ~ExactApplies(q, t)
    /\ AtLeast(BestOfTiers(q, t).confidence, 30)
    /\ Len(BestOfTiers(q, t).segments) > 1

\* C25: a result built from several segments has as snippet the segments'
\* texts in non-decreasing order of position joined by "...", as startIndex
\* the smallest segment start and as endIndex the largest segment end, also
\* when segments overlap.
C25_SegmentsSpanned ==
    (pc = "returned" /\ SeveralSegments(quote, transcript)) =>
        LET segments == BestOfTiers(quote, transcript).segments
            ordered == SortByStart(segments)
            positions == 1 .. Len(segments)
        IN  /\ \A j, k \in positions : j < k => ordered[j].start <= ordered[k].start
            /\ found.snippet = Some(Join(SegmentTexts(ordered), "..."))
            /\ \E k \in positions :
                   /\ found.startIndex = Some(segments[k].start)
                   /\ \A j \in positions : segments[k].start <= segments[j].start
            /\ \E k \in positions :
                   /\ found.endIndex = Some(segments[k].end)
                   /\ \A j \in positions : segments[j].end <= segments[k].end

\* C29: for every result other than not_found,
\* 0 <= startIndex <= endIndex <= length of the original transcript.
C29_OffsetsWithinTranscript ==
    (pc = "returned" /\ found.matchType # "not_found") =>
        /\ found.startIndex # None
        /\ found.endIndex # None
        /\ 0 <= found.startIndex[1]
        /\ found.startIndex[1] <= found.endIndex[1]
        /\ found.endIndex[1] <= Len(transcript)

\* in every record of the list, exact and partial go with isVerified and
\* not_found with its negation
KindConsistent(list) ==
    \A k \in 1 .. Len(list) :
        /\ list[k].matchType \in {"exact", "partial"} => list[k].isVerified
        /\ list[k].matchType = "not_found" => ~list[k].isVerified

\* C30: in every record verifyQuotes builds (being collected, stored or
\* handed to onVerificationComplete), matchType exact or partial implies
\* isVerified and matchType not_found implies its negation.
C30_KindImpliesVerified ==
    /\ KindConsistent(newVerifications)
    /\ KindConsistent(verifications)
    /\ \A d \in 1 .. Len(delivered) : KindConsistent(delivered[d])

\* a stored list holds a verified partial record and an unverified
\* not_found record
C30_Witness ==
    /\ \E k \in 1 .. Len(verifications) :
           /\ verifications[k].matchType = "partial"
           /\ verifications[k].isVerified
    /\ \E k \in 1 .. Len(verifications) :
           /\ verifications[k].matchType = "not_found"
           /\ ~verifications[k].isVerified

\* C26: isChecking is true while a pass waits for its timer and false after
\* every exit of a pass (no quotes, all quotes processed, exception caught);
\* every pass that started leaves the component not checking, where Re-verify
\* is available again.
C26_PassLeavesNotChecking ==
    /\ [](pc = "await" => isChecking)
    /\ [](pc = "idle" => ~isChecking)
    /\ (pc = "await" ~> (pc = "idle" /\ ~isChecking))

\* a pass started by Re-verify has ended in the catch block, at its first
\* quote, and the component is not checking
C26_Witness ==
    /\ pc = "idle"
    /\ ~isChecking
    /\ passes > 0
    /\ extractedQuotes # << >>
    /\ toasts # << >>
    /\ toasts[Len(toasts)] = "Verification failed"

\* the list a pass over the props it closed over hands over: one record for
\* each quote extracted from the draft, matched against the transcript
ListOfCaptured ==
    LET spans == extractQuotesFromDraft(captured.draft)
    IN  [k \in 1 .. Len(spans) |->
            VerificationOf(spans[k],
                           findQuoteInTranscript(spans[k].text, captured.transcript),
                           k - 1)]

\* C27: onVerificationComplete is called at most once per pass, at the end
\* of the pass, with the complete list: one record for every quote extracted
\* from the draft the pass started with, matched against the transcript the
\* pass started with. No shorter list is handed over, and a step that ends
\* a pass in the catch block hands over nothing.
C27_CompleteListOncePerPass ==
    [][/\ Len(delivered') <= passes'
       /\ delivered' # delivered =>
            /\ pc = "await"
            /\ pc' = "idle"
            /\ i' = Len(extractedQuotes)
            /\ captured.missing = {}
            /\ delivered' = Append(delivered, ListOfCaptured)
       /\ (toasts' # toasts /\ toasts'[Len(toasts')] = "Verification failed") =>
            delivered' = delivered]_vars

\* a pass over two quotes has handed over its list of two records after the
\* parent rendered another transcript, one in which the first quote has
\* another kind of match
C27_Witness ==
    /\ pc = "idle"
    /\ passes = 1
    /\ Len(delivered) = 1
    /\ Len(delivered[1]) = 2
    /\ missing = {}
    /\ captured.transcript # transcript
    /\ captured.draft = draft
    /\ delivered[1][1].matchType
           # findQuoteInTranscript(delivered[1][1].quotedText, transcript).matchType

\* what the component renders: the progress view while checking, else the
\* alert that no quoted text was found when the stored list is empty, else
\* the stored results
View ==
    IF isChecking THEN "progress"
    ELSE IF Len(verifications) = 0 THEN "alert"
    ELSE "results"

\* C28: a pass that extracts no quote reports "No quotes found", leaves the
\* stored list as it was and does not call onVerificationComplete; the
\* results of an earlier pass stay stored and are what is rendered after it.
C28_NoQuotesKeepsResults ==
    [][(/\ passes' = passes + 1
        /\ toasts' = Append(toasts, "No quotes found")) =>
           /\ extractedQuotes' = << >>
           /\ verifications' = verifications
           /\ delivered' = delivered
           /\ ~isChecking'
           /\ (verifications # << >> => View' = "results")]_vars

\* a second pass found no quote in the draft rendered after the first pass,
\* and the records of the first pass are still stored and rendered
C28_Witness ==
    /\ pc = "idle"
    /\ passes = 2
    /\ extractedQuotes = << >>
    /\ toasts[Len(toasts)] = "No quotes found"
    /\ verifications # << >>
    /\ Len(delivered) = 1
    /\ verifications = delivered[1]
    /\ View = "results"

====
